---------------------------- MODULE Spec2Model ----------------------------
(***************************************************************************)
(* Model of the resume / job-description matching engine of               *)
(* src/src/utils/aiProcessor.ts: text normalisation, skill extraction,     *)
(* the lazily initialised embedding backend, cosine similarity, scoring,   *)
(* recommendations and the analyzeResumeMatch pipeline.                    *)
(*                                                                         *)
(* JavaScript strings are TLA+ strings; where the code looks inside a      *)
(* string (toLowerCase, replace, includes) the model works on its sequence *)
(* of characters, Chars[s], and Str turns a sequence back into a string.   *)
(* JavaScript numbers are exact rationals [n, d]; the vectors the model    *)
(* feeds to Math.sqrt have perfect-square norms, so sqrt is exact too.     *)
(*                                                                         *)
(* Asynchrony follows the JavaScript event loop: code between two awaits   *)
(* is one atomic action, a continuation whose promise is settled sits in   *)
(* the FIFO microtask queue, and an I/O completion (the model load, an     *)
(* inference) is delivered only when that queue is empty.                  *)
(*                                                                         *)
(* Spec is the module with its asynchronous backend and its callers;       *)
(* FnSpec applies the synchronous functions to arguments of their own.     *)
(***************************************************************************)
EXTENDS Integers, Sequences, FiniteSets, TLC

(***************************************************************************)
(* Strings and characters                                                  *)
(***************************************************************************)
commonSkills ==
  << "javascript", "python", "java", "typescript", "c++", "c#",
     "php", "ruby", "go", "rust", "swift", "kotlin",
     "scala", "r", "matlab", "sql", "html", "css",
     "react", "angular", "vue", "nodejs", "express", "django",
     "flask", "spring", "laravel", "rails", "nextjs", "nuxt",
     "svelte", "ember", "backbone", "jquery", "mysql", "postgresql",
     "mongodb", "redis", "elasticsearch", "sqlite", "oracle", "cassandra",
     "dynamodb", "firebase", "aws", "azure", "gcp", "docker",
     "kubernetes", "jenkins", "git", "github", "gitlab", "terraform",
     "ansible", "vagrant", "linux", "unix", "bash", "machine learning",
     "deep learning", "data science", "artificial intelligence", "tensorflow", "pytorch", "pandas",
     "numpy", "scikit-learn", "tableau", "powerbi", "leadership", "communication",
     "teamwork", "problem solving", "project management", "agile", "scrum", "kanban",
     "analytical thinking", "creativity" >>

Chars ==
  ("javascript" :>
      <<"j", "a", "v", "a", "s", "c", "r", "i", "p", "t">>) @@
  ("python" :>
      <<"p", "y", "t", "h", "o", "n">>) @@
  ("java" :>
      <<"j", "a", "v", "a">>) @@
  ("typescript" :>
      <<"t", "y", "p", "e", "s", "c", "r", "i", "p", "t">>) @@
  ("c++" :>
      <<"c", "+", "+">>) @@
  ("c#" :>
      <<"c", "#">>) @@
  ("php" :>
      <<"p", "h", "p">>) @@
  ("ruby" :>
      <<"r", "u", "b", "y">>) @@
  ("go" :>
      <<"g", "o">>) @@
  ("rust" :>
      <<"r", "u", "s", "t">>) @@
  ("swift" :>
      <<"s", "w", "i", "f", "t">>) @@
  ("kotlin" :>
      <<"k", "o", "t", "l", "i", "n">>) @@
  ("scala" :>
      <<"s", "c", "a", "l", "a">>) @@
  ("r" :>
      <<"r">>) @@
  ("matlab" :>
      <<"m", "a", "t", "l", "a", "b">>) @@
  ("sql" :>
      <<"s", "q", "l">>) @@
  ("html" :>
      <<"h", "t", "m", "l">>) @@
  ("css" :>
      <<"c", "s", "s">>) @@
  ("react" :>
      <<"r", "e", "a", "c", "t">>) @@
  ("angular" :>
      <<"a", "n", "g", "u", "l", "a", "r">>) @@
  ("vue" :>
      <<"v", "u", "e">>) @@
  ("nodejs" :>
      <<"n", "o", "d", "e", "j", "s">>) @@
  ("express" :>
      <<"e", "x", "p", "r", "e", "s", "s">>) @@
  ("django" :>
      <<"d", "j", "a", "n", "g", "o">>) @@
  ("flask" :>
      <<"f", "l", "a", "s", "k">>) @@
  ("spring" :>
      <<"s", "p", "r", "i", "n", "g">>) @@
  ("laravel" :>
      <<"l", "a", "r", "a", "v", "e", "l">>) @@
  ("rails" :>
      <<"r", "a", "i", "l", "s">>) @@
  ("nextjs" :>
      <<"n", "e", "x", "t", "j", "s">>) @@
  ("nuxt" :>
      <<"n", "u", "x", "t">>) @@
  ("svelte" :>
      <<"s", "v", "e", "l", "t", "e">>) @@
  ("ember" :>
      <<"e", "m", "b", "e", "r">>) @@
  ("backbone" :>
      <<"b", "a", "c", "k", "b", "o", "n", "e">>) @@
  ("jquery" :>
      <<"j", "q", "u", "e", "r", "y">>) @@
  ("mysql" :>
      <<"m", "y", "s", "q", "l">>) @@
  ("postgresql" :>
      <<"p", "o", "s", "t", "g", "r", "e", "s", "q", "l">>) @@
  ("mongodb" :>
      <<"m", "o", "n", "g", "o", "d", "b">>) @@
  ("redis" :>
      <<"r", "e", "d", "i", "s">>) @@
  ("elasticsearch" :>
      <<"e", "l", "a", "s", "t", "i", "c", "s", "e", "a", "r", "c", "h">>) @@
  ("sqlite" :>
      <<"s", "q", "l", "i", "t", "e">>) @@
  ("oracle" :>
      <<"o", "r", "a", "c", "l", "e">>) @@
  ("cassandra" :>
      <<"c", "a", "s", "s", "a", "n", "d", "r", "a">>) @@
  ("dynamodb" :>
      <<"d", "y", "n", "a", "m", "o", "d", "b">>) @@
  ("firebase" :>
      <<"f", "i", "r", "e", "b", "a", "s", "e">>) @@
  ("aws" :>
      <<"a", "w", "s">>) @@
  ("azure" :>
      <<"a", "z", "u", "r", "e">>) @@
  ("gcp" :>
      <<"g", "c", "p">>) @@
  ("docker" :>
      <<"d", "o", "c", "k", "e", "r">>) @@
  ("kubernetes" :>
      <<"k", "u", "b", "e", "r", "n", "e", "t", "e", "s">>) @@
  ("jenkins" :>
      <<"j", "e", "n", "k", "i", "n", "s">>) @@
  ("git" :>
      <<"g", "i", "t">>) @@
  ("github" :>
      <<"g", "i", "t", "h", "u", "b">>) @@
  ("gitlab" :>
      <<"g", "i", "t", "l", "a", "b">>) @@
  ("terraform" :>
      <<"t", "e", "r", "r", "a", "f", "o", "r", "m">>) @@
  ("ansible" :>
      <<"a", "n", "s", "i", "b", "l", "e">>) @@
  ("vagrant" :>
      <<"v", "a", "g", "r", "a", "n", "t">>) @@
  ("linux" :>
      <<"l", "i", "n", "u", "x">>) @@
  ("unix" :>
      <<"u", "n", "i", "x">>) @@
  ("bash" :>
      <<"b", "a", "s", "h">>) @@
  ("machine learning" :>
      <<"m", "a", "c", "h", "i", "n", "e", " ", "l", "e", "a", "r", "n", "i", "n", "g">>) @@
  ("deep learning" :>
      <<"d", "e", "e", "p", " ", "l", "e", "a", "r", "n", "i", "n", "g">>) @@
  ("data science" :>
      <<"d", "a", "t", "a", " ", "s", "c", "i", "e", "n", "c", "e">>) @@
  ("artificial intelligence" :>
      <<"a", "r", "t", "i", "f", "i", "c", "i", "a", "l", " ", "i", "n", "t", "e", "l", "l", "i", "g", "e", "n", "c", "e">>) @@
  ("tensorflow" :>
      <<"t", "e", "n", "s", "o", "r", "f", "l", "o", "w">>) @@
  ("pytorch" :>
      <<"p", "y", "t", "o", "r", "c", "h">>) @@
  ("pandas" :>
      <<"p", "a", "n", "d", "a", "s">>) @@
  ("numpy" :>
      <<"n", "u", "m", "p", "y">>) @@
  ("scikit-learn" :>
      <<"s", "c", "i", "k", "i", "t", "-", "l", "e", "a", "r", "n">>) @@
  ("tableau" :>
      <<"t", "a", "b", "l", "e", "a", "u">>) @@
  ("powerbi" :>
      <<"p", "o", "w", "e", "r", "b", "i">>) @@
  ("leadership" :>
      <<"l", "e", "a", "d", "e", "r", "s", "h", "i", "p">>) @@
  ("communication" :>
      <<"c", "o", "m", "m", "u", "n", "i", "c", "a", "t", "i", "o", "n">>) @@
  ("teamwork" :>
      <<"t", "e", "a", "m", "w", "o", "r", "k">>) @@
  ("problem solving" :>
      <<"p", "r", "o", "b", "l", "e", "m", " ", "s", "o", "l", "v", "i", "n", "g">>) @@
  ("project management" :>
      <<"p", "r", "o", "j", "e", "c", "t", " ", "m", "a", "n", "a", "g", "e", "m", "e", "n", "t">>) @@
  ("agile" :>
      <<"a", "g", "i", "l", "e">>) @@
  ("scrum" :>
      <<"s", "c", "r", "u", "m">>) @@
  ("kanban" :>
      <<"k", "a", "n", "b", "a", "n">>) @@
  ("analytical thinking" :>
      <<"a", "n", "a", "l", "y", "t", "i", "c", "a", "l", " ", "t", "h", "i", "n", "k", "i", "n", "g">>) @@
  ("creativity" :>
      <<"c", "r", "e", "a", "t", "i", "v", "i", "t", "y">>) @@
  ("Experienced Python and React developer" :>
      <<"E", "x", "p", "e", "r", "i", "e", "n", "c", "e", "d", " ", "P", "y", "t", "h", "o", "n", " ", "a", "n", "d", " ", "R", "e", "a", "c", "t", " ", "d", "e", "v", "e", "l", "o", "p", "e", "r">>) @@
  ("Looking for Python, React, and AWS experience" :>
      <<"L", "o", "o", "k", "i", "n", "g", " ", "f", "o", "r", " ", "P", "y", "t", "h", "o", "n", ",", " ", "R", "e", "a", "c", "t", ",", " ", "a", "n", "d", " ", "A", "W", "S", " ", "e", "x", "p", "e", "r", "i", "e", "n", "c", "e">>) @@
  ("Chef" :>
      <<"C", "h", "e", "f">>) @@
  ("Git and Java" :>
      <<"G", "i", "t", " ", "a", "n", "d", " ", "J", "a", "v", "a">>) @@
  ("GitHub, JavaScript" :>
      <<"G", "i", "t", "H", "u", "b", ",", " ", "J", "a", "v", "a", "S", "c", "r", "i", "p", "t">>) @@
  ("SQL HTML CSS PHP AWS GCP Vue, Bash, Unix, Java" :>
      <<"S", "Q", "L", " ", "H", "T", "M", "L", " ", "C", "S", "S", " ", "P", "H", "P", " ", "A", "W", "S", " ", "G", "C", "P", " ", "V", "u", "e", ",", " ", "B", "a", "s", "h", ",", " ", "U", "n", "i", "x", ",", " ", "J", "a", "v", "a">>) @@
  ("SQL / HTML / CSS / PHP / AWS / GCP / Vue" :>
      <<"S", "Q", "L", " ", "/", " ", "H", "T", "M", "L", " ", "/", " ", "C", "S", "S", " ", "/", " ", "P", "H", "P", " ", "/", " ", "A", "W", "S", " ", "/", " ", "G", "C", "P", " ", "/", " ", "V", "u", "e">>) @@
  ("R Go MySQL GitHub PHP CSS Vue AWS GCP HTML Java Bash Unix" :>
      <<"R", " ", "G", "o", " ", "M", "y", "S", "Q", "L", " ", "G", "i", "t", "H", "u", "b", " ", "P", "H", "P", " ", "C", "S", "S", " ", "V", "u", "e", " ", "A", "W", "S", " ", "G", "C", "P", " ", "H", "T", "M", "L", " ", "J", "a", "v", "a", " ", "B", "a", "s", "h", " ", "U", "n", "i", "x">>) @@
  ("snake_case" :>
      <<"s", "n", "a", "k", "e", "_", "c", "a", "s", "e">>) @@
  ("  Node.js\t&\nC++  " :>
      <<" ", " ", "N", "o", "d", "e", ".", "j", "s", "\t", "&", "\n", "C", "+", "+", " ", " ">>) @@
  ("A1 b2!" :>
      <<"A", "1", " ", "b", "2", "!">>) @@
  ("" :>
      <<>>)

\* The resume and job texts the model feeds to the pipeline.
ResumeA == "Experienced Python and React developer"
JobA == "Looking for Python, React, and AWS experience"
NoSkillText == "Chef"
\* A resume and a job description whose skills contain one another as
\* substrings ("git" in "github", "java" in "javascript").
GitResume == "Git and Java"
GitHubJob == "GitHub, JavaScript"
\* A resume with seven of the ten skills of a job description, and a job
\* description with fifteen skills.
SevenSkillResume == "SQL / HTML / CSS / PHP / AWS / GCP / Vue"
TenSkillJob == "SQL HTML CSS PHP AWS GCP Vue, Bash, Unix, Java"
FifteenSkillJob == "R Go MySQL GitHub PHP CSS Vue AWS GCP HTML Java Bash Unix"
Texts ==
  {ResumeA, JobA, NoSkillText, GitResume, GitHubJob, SevenSkillResume,
   TenSkillJob, FifteenSkillJob}

UpperCase ==
  <<"A", "B", "C", "D", "E", "F", "G", "H", "I", "J", "K", "L", "M",
    "N", "O", "P", "Q", "R", "S", "T", "U", "V", "W", "X", "Y", "Z">>
LowerCase ==
  <<"a", "b", "c", "d", "e", "f", "g", "h", "i", "j", "k", "l", "m",
    "n", "o", "p", "q", "r", "s", "t", "u", "v", "w", "x", "y", "z">>
Digits == {"0", "1", "2", "3", "4", "5", "6", "7", "8", "9"}

Range(s) == {s[i] : i \in DOMAIN s}

\* The regular expression class \w: ASCII letters, digits and the underscore.
IsWordChar(ch) == ch \in Range(UpperCase) \cup Range(LowerCase) \cup Digits \cup {"_"}

\* The regular expression class \s.
IsSpaceChar(ch) == ch \in {" ", "\t", "\n", "\r"}

\* String.prototype.toLowerCase, character by character.
LowerChar(ch) ==
  IF ch \in Range(UpperCase)
    THEN LowerCase[CHOOSE i \in DOMAIN UpperCase : UpperCase[i] = ch]
    ELSE ch

toLowerCase(s) == [i \in 1..Len(s) |-> LowerChar(s[i])]

\* .replace(/[^\w\s]/g, ' ')
ReplaceNonWord(s) ==
  [i \in 1..Len(s) |-> IF IsWordChar(s[i]) \/ IsSpaceChar(s[i]) THEN s[i] ELSE " "]

\* .replace(/\s+/g, ' '): every maximal run of whitespace becomes one space.
RECURSIVE CollapseSpaces(_)
CollapseSpaces(s) ==
  IF s = <<>> THEN <<>>
  ELSE IF IsSpaceChar(Head(s))
    THEN IF Len(s) > 1 /\ IsSpaceChar(s[2])
           THEN CollapseSpaces(Tail(s))
           ELSE <<" ">> \o CollapseSpaces(Tail(s))
    ELSE <<Head(s)>> \o CollapseSpaces(Tail(s))

\* .trim()
RECURSIVE TrimStart(_)
TrimStart(s) ==
  IF s # <<>> /\ IsSpaceChar(Head(s)) THEN TrimStart(Tail(s)) ELSE s

RECURSIVE TrimEnd(_)
TrimEnd(s) ==
  IF s # <<>> /\ IsSpaceChar(s[Len(s)]) THEN TrimEnd(SubSeq(s, 1, Len(s) - 1)) ELSE s

Trim(s) == TrimEnd(TrimStart(s))

\* preprocessText on a sequence of characters.
preprocessChars(s) == Trim(CollapseSpaces(ReplaceNonWord(toLowerCase(s))))

\* A sequence of characters as a string.
RECURSIVE Str(_)
Str(s) == IF s = <<>> THEN "" ELSE Head(s) \o Str(Tail(s))

preprocessText(text) == Str(preprocessChars(Chars[text]))

\* String.prototype.includes
Includes(hay, needle) ==
  \E i \in 0..(Len(hay) - Len(needle)) : SubSeq(hay, i + 1, i + Len(needle)) = needle

\* [...new Set(xs)]: the first occurrence of every element, in order.
RECURSIVE Dedupe(_)
Dedupe(xs) ==
  IF xs = <<>> THEN <<>>
  ELSE LET init == Dedupe(SubSeq(xs, 1, Len(xs) - 1))
           last == xs[Len(xs)]
       IN  IF last \in Range(init) THEN init ELSE Append(init, last)

\* A faulty variant of extractSkills: a skill is found only as a whole word.
extractSkills_WholeWords(text) ==
  LET preprocessedText == <<" ">> \o preprocessChars(Chars[text]) \o <<" ">>
      foundSkills ==
        SelectSeq(commonSkills,
                  LAMBDA skill :
                    Includes(preprocessedText,
                             <<" ">> \o toLowerCase(Chars[skill]) \o <<" ">>))
  IN  Dedupe(foundSkills)

extractSkills(text) ==
  LET preprocessedText == preprocessChars(Chars[text])
      foundSkills ==
        SelectSeq(commonSkills,
                  LAMBDA skill : Includes(preprocessedText, toLowerCase(Chars[skill])))
  IN  Dedupe(foundSkills)

\* extractSkills of every input text, computed once.
SkillsOf == [t \in Texts |-> extractSkills(t)]

(***************************************************************************)
(* Numbers: exact rationals [n |-> numerator, d |-> denominator > 0]       *)
(***************************************************************************)
Abs(i) == IF i < 0 THEN -i ELSE i

RECURSIVE GCD(_, _)
GCD(a, b) == IF b = 0 THEN a ELSE GCD(b, a % b)

Rat(n, d) ==
  LET g == GCD(Abs(n), d)
  IN  IF n = 0 THEN [n |-> 0, d |-> 1] ELSE [n |-> n \div g, d |-> d \div g]

Num(i) == [n |-> i, d |-> 1]
Mul(a, b) == Rat(a.n * b.n, a.d * b.d)
Add(a, b) == Rat(a.n * b.d + b.n * a.d, a.d * b.d)
Less(a, b) == a.n * b.d < b.n * a.d
Min(a, b) == IF Less(b, a) THEN b ELSE a

\* Math.round: the nearest integer, a tie going up.
MathRound(a) == (2 * a.n + a.d) \div (2 * a.d)

\* Math.sqrt, on the perfect squares the model's vectors produce.
MathSqrt(i) == CHOOSE k \in 0..i : k * k = i

(***************************************************************************)
(* Outcomes of calls and promises, and Error objects                       *)
(***************************************************************************)
Error(message) == [message |-> message]
Pending == [state |-> "pending"]
Fulfilled(v) == [state |-> "fulfilled", value |-> v]
Rejected(e) == [state |-> "rejected", error |-> e]
Undefined == [undefined |-> TRUE]

(***************************************************************************)
(* Cosine similarity                                                       *)
(***************************************************************************)
RECURSIVE SumTo(_, _)
SumTo(f, k) == IF k = 0 THEN 0 ELSE SumTo(f, k - 1) + f[k]

\* A faulty variant of calculateCosineSimilarity: the magnitudes are computed
\* and tested before the lengths are compared.
calculateCosineSimilarity_ZeroCheckFirst(vecA, vecB) ==
  LET magnitudeA == MathSqrt(SumTo([i \in 1..Len(vecA) |-> vecA[i] * vecA[i]], Len(vecA)))
      magnitudeB == MathSqrt(SumTo([i \in 1..Len(vecB) |-> vecB[i] * vecB[i]], Len(vecB)))
  IN  IF magnitudeA = 0 \/ magnitudeB = 0
        THEN Fulfilled(Num(0))
      ELSE IF Len(vecA) # Len(vecB)
        THEN Rejected(Error("Vectors must have the same length"))
      ELSE Fulfilled(Rat(SumTo([i \in 1..Len(vecA) |-> vecA[i] * vecB[i]], Len(vecA)),
                         magnitudeA * magnitudeB))

calculateCosineSimilarity(vecA, vecB) ==
  IF Len(vecA) # Len(vecB)
    THEN Rejected(Error("Vectors must have the same length"))
    ELSE
      LET dotProduct == SumTo([i \in 1..Len(vecA) |-> vecA[i] * vecB[i]], Len(vecA))
          magnitudeA == MathSqrt(SumTo([i \in 1..Len(vecA) |-> vecA[i] * vecA[i]], Len(vecA)))
          magnitudeB == MathSqrt(SumTo([i \in 1..Len(vecB) |-> vecB[i] * vecB[i]], Len(vecB)))
      IN  IF magnitudeA = 0 \/ magnitudeB = 0
            THEN Fulfilled(Num(0))
            ELSE Fulfilled(Rat(dotProduct, magnitudeA * magnitudeB))

(***************************************************************************)
(* Skill matching, scoring and recommendations                             *)
(***************************************************************************)
\* Array.prototype.slice(from, to)
Slice(xs, from, to) == SubSeq(xs, from + 1, IF to < Len(xs) THEN to ELSE Len(xs))

\* Array.prototype.join of strings
RECURSIVE Join(_, _)
Join(xs, sep) ==
  IF xs = <<>> THEN ""
  ELSE IF Len(xs) = 1 THEN xs[1]
  ELSE xs[1] \o sep \o Join(Tail(xs), sep)

\* a.toLowerCase().includes(b.toLowerCase()) on two skill strings
SkillIncludes(a, b) == Includes(toLowerCase(Chars[a]), toLowerCase(Chars[b]))

MatchedSkills(resumeSkills, jobSkills) ==
  SelectSeq(resumeSkills,
            LAMBDA skill : \E i \in DOMAIN jobSkills : SkillIncludes(jobSkills[i], skill))

MissingSkills(resumeSkills, jobSkills) ==
  SelectSeq(jobSkills,
            LAMBDA skill : ~ \E i \in DOMAIN resumeSkills : SkillIncludes(resumeSkills[i], skill))

SkillsScore(matchedSkills, jobSkills) ==
  IF Len(jobSkills) > 0
    THEN Mul(Rat(Len(matchedSkills), Len(jobSkills)), Num(100))
    ELSE Num(100)

\* A faulty variant of ExperienceScore: the similarity is scaled by 20.
ExperienceScore_Scale20(semanticSimilarity) == Min(Mul(semanticSimilarity, Num(20)), Num(100))

ExperienceScore(semanticSimilarity) == Min(Mul(semanticSimilarity, Num(120)), Num(100))

EducationScore(semanticSimilarity) == Mul(semanticSimilarity, Num(100))

OverallScore(skillsScore, experienceScore, educationScore, keywordsScore) ==
  MathRound(Add(Add(Add(Mul(skillsScore, Rat(4, 10)),
                        Mul(experienceScore, Rat(3, 10))),
                    Mul(educationScore, Rat(2, 10))),
                Mul(keywordsScore, Rat(1, 10))))

MissingSkillsMessage(missingSkills) ==
  "Add these missing skills to your resume: " \o Join(Slice(missingSkills, 0, 5), ", ")
SkillsMessage ==
  "Consider highlighting more relevant technical skills that match the job requirements."
KeywordsMessage ==
  "Try to use more keywords and phrases from the job description in your resume."
RestructureMessage ==
  "Consider restructuring your resume to better align with the job requirements."

\* A faulty variant of Recommendations: the rules form an else-if chain.
Recommendations_FirstRuleOnly(missingSkills, skillsScore, semanticSimilarity, overallScore) ==
  IF Len(missingSkills) > 0 THEN <<MissingSkillsMessage(missingSkills)>>
  ELSE IF Less(skillsScore, Num(70)) THEN <<SkillsMessage>>
  ELSE IF Less(semanticSimilarity, Rat(6, 10)) THEN <<KeywordsMessage>>
  ELSE IF overallScore < 60 THEN <<RestructureMessage>>
  ELSE <<>>

Recommendations(missingSkills, skillsScore, semanticSimilarity, overallScore) ==
  (IF Len(missingSkills) > 0 THEN <<MissingSkillsMessage(missingSkills)>> ELSE <<>>)
  \o (IF Less(skillsScore, Num(70)) THEN <<SkillsMessage>> ELSE <<>>)
  \o (IF Less(semanticSimilarity, Rat(6, 10)) THEN <<KeywordsMessage>> ELSE <<>>)
  \o (IF overallScore < 60 THEN <<RestructureMessage>> ELSE <<>>)

(***************************************************************************)
(* Bounds and inputs of the model                                          *)
(***************************************************************************)
\* One caller runs analyzeResumeMatch; NumEmbedders more callers call the
\* exported generateEmbeddings directly, concurrently with it and with each
\* other.  Every embedding call, nested or direct, runs the same code.
NumEmbedders == 1
\* The model load fails at most this many times in one behaviour.
MaxLoadFailures == 1

Analysts == {1}
Embedders == 2..(NumEmbedders + 1)
Callers == Analysts \cup Embedders

\* The vectors the embedding provider may return, all of norm 5 (the unit
\* length of `normalize: true`, scaled): their cosine similarities are 1, 0.6,
\* -0.8 and -0.96.  The one-dimensional vector breaks the provider's promise
\* of a consistent dimensionality.
Vectors == {<<3, 4>>, <<5, 0>>, <<-4, -3>>, <<5>>}

\* The (resume, job) pairs handed to analyzeResumeMatch: scenario A, a resume
\* without any skill, and a job description without any skill.
AnalysisInputs == {<<ResumeA, JobA>>, <<NoSkillText, JobA>>, <<ResumeA, NoSkillText>>}
\* The texts handed to generateEmbeddings directly.
EmbedInputs == {"experienced python and react developer"}

\* A faulty variant of ProgressValues: two reports are out of order.
ProgressValues_OutOfOrder == <<10, 30, 50, 80, 70, 90, 100>>

\* The progress values analyzeResumeMatch reports, in order.
ProgressValues == <<10, 30, 50, 70, 80, 90, 100>>
\* The progress value at which the caller's callback throws (0: never).
CallbackThrowsAt == {0, 30}

NULL == "null"
Pipeline == "pipeline"

LoadError == Error("model load failed")
CallbackError == Error("progress callback failed")
UnavailableError == Error("Text embedding model not available")
ComputeError == Error("Failed to generate text embeddings")
AnalysisError == Error("Analysis failed. Please try again.")

(***************************************************************************)
(* State                                                                   *)
(***************************************************************************)
VARIABLES
  textEmbeddingModel,  \* NULL or the loaded pipeline
  isModelLoading,      \* the module's loading flag
  loads,               \* history: the outcome of every model load started
  microtasks,          \* callers whose continuation is ready to run, FIFO
  emb,                 \* per caller: its generateEmbeddings call
  ana,                 \* per analyst: its analyzeResumeMatch call
  applied              \* the synchronous function applied last, with its value

vars == <<textEmbeddingModel, isModelLoading, loads, microtasks, emb, ana, applied>>

NoEmbedCall ==
  [pc |-> "none", text |-> "", init |-> "none", startedLoad |-> 0,
   joinedLoad |-> 0, inferCalls |-> 0, inference |-> "none",
   outcome |-> Pending]

\* No synchronous function has been applied on its own.
NotApplied == [fn |-> "none", args |-> <<>>, value |-> Undefined]

NoAnalysis ==
  [pc |-> "none", resumeText |-> "", jobText |-> "", cbThrowsAt |-> 0,
   progress |-> <<>>, embedCalls |-> 0, loadsStarted |-> 0,
   failedAt |-> "none", firstFailure |-> Undefined,
   locals |-> Undefined, outcome |-> Pending]

Init ==
  /\ textEmbeddingModel = NULL
  /\ isModelLoading = FALSE
  /\ loads = <<>>
  /\ microtasks = <<>>
  /\ emb = [c \in Callers |-> NoEmbedCall]
  /\ ana = [c \in Analysts |-> NoAnalysis]
  /\ applied = NotApplied

\* The backend state of the specification, derived from the two module variables.
BackendState ==
  IF textEmbeddingModel # NULL THEN "Ready"
  ELSE IF isModelLoading THEN "Loading"
  ELSE "Uninitialized"

LoadsInFlight == Cardinality({c \in Callers : emb[c].pc = "loading"})
LoadFailures == Cardinality({i \in DOMAIN loads : loads[i] = "failed"})

(***************************************************************************)
(* initializeModels and generateEmbeddings                                 *)
(***************************************************************************)
\* A faulty variant of SkipLoad: the loading flag is not consulted.
SkipLoad_IgnoresLoadingFlag == textEmbeddingModel # NULL

\* initializeModels' early return: a model is there, or a load is in flight.
SkipLoad == textEmbeddingModel # NULL \/ isModelLoading

\* A faulty variant of LoadingAfterFinally: the flag is never lowered.
LoadingAfterFinally_FlagKept == TRUE

\* The flag after the finally block of initializeModels.
LoadingAfterFinally == FALSE

\* A faulty variant of InitAfterLoadFailure: the catch block rethrows.
InitAfterLoadFailure_Rethrown == "threw"

\* What initializeModels' promise settles to when the load failed: the
\* catch block logs the error and the function returns normally.
InitAfterLoadFailure == "returned"

\* The synchronous start of generateEmbeddings(text) by caller c: it calls
\* initializeModels, which either returns at once (its continuation is
\* queued behind `queue`) or raises the flag and awaits the provider's load.
generateEmbeddings(c, text, queue) ==
  IF SkipLoad
    THEN /\ emb' = [emb EXCEPT ![c] =
                      [NoEmbedCall EXCEPT !.pc = "init", !.text = text,
                                          !.init = "returned",
                                          !.joinedLoad =
                                            IF isModelLoading THEN Len(loads) ELSE 0]]
         /\ microtasks' = Append(queue, c)
         /\ UNCHANGED <<textEmbeddingModel, isModelLoading, loads>>
    ELSE /\ isModelLoading' = TRUE
         /\ loads' = Append(loads, "pending")
         /\ emb' = [emb EXCEPT ![c] =
                      [NoEmbedCall EXCEPT !.pc = "loading", !.text = text,
                                          !.startedLoad = Len(loads) + 1]]
         /\ microtasks' = queue
         /\ UNCHANGED textEmbeddingModel

\* A caller that has no call in flight.
Idle(c) ==
  /\ emb[c].pc \in {"none", "settled"}
  /\ c \in Analysts => ana[c].pc \in {"none", "settled"}

\* A direct call of the exported generateEmbeddings.
GenerateEmbeddingsCall(c, text) ==
  /\ c \in Embedders
  /\ Idle(c)
  /\ generateEmbeddings(c, text, microtasks)
  /\ UNCHANGED ana
  /\ UNCHANGED applied

\* The provider's pipeline() resolves: the model is stored, the finally block
\* lowers the flag, initializeModels returns.
LoadSucceeds(c) ==
  /\ microtasks = <<>>
  /\ emb[c].pc = "loading"
  /\ textEmbeddingModel' = Pipeline
  /\ isModelLoading' = LoadingAfterFinally
  /\ loads' = [loads EXCEPT ![emb[c].startedLoad] = "ok"]
  /\ emb' = [emb EXCEPT ![c].pc = "init", ![c].init = "returned"]
  /\ microtasks' = <<c>>
  /\ UNCHANGED ana
  /\ UNCHANGED applied

\* The provider's pipeline() rejects: the catch block logs, the finally block
\* lowers the flag, the model stays null.
LoadFails(c) ==
  /\ microtasks = <<>>
  /\ emb[c].pc = "loading"
  /\ LoadFailures < MaxLoadFailures
  /\ isModelLoading' = LoadingAfterFinally
  /\ loads' = [loads EXCEPT ![emb[c].startedLoad] = "failed"]
  /\ emb' = [emb EXCEPT ![c].pc = "init", ![c].init = InitAfterLoadFailure]
  /\ microtasks' = <<c>>
  /\ UNCHANGED <<textEmbeddingModel, ana>>
  /\ UNCHANGED applied

\* The queue after caller c's generateEmbeddings promise settled: inside
\* analyzeResumeMatch the analysis awaits it, and its continuation is queued.
AfterEmbedSettled(c, queue) ==
  IF c \in Analysts /\ ana[c].pc \in {"resumeEmbedding", "jobEmbedding"}
    THEN Append(queue, c)
    ELSE queue

\* generateEmbeddings resumes after `await initializeModels()`.
EmbedResume(c) ==
  /\ microtasks # <<>>
  /\ Head(microtasks) = c
  /\ emb[c].pc = "init"
  /\ IF emb[c].init = "threw"
       THEN /\ emb' = [emb EXCEPT ![c].pc = "settled",
                                  ![c].outcome = Rejected(LoadError)]
            /\ microtasks' = AfterEmbedSettled(c, Tail(microtasks))
       ELSE IF textEmbeddingModel = NULL
         THEN /\ emb' = [emb EXCEPT ![c].pc = "settled",
                                    ![c].outcome = Rejected(UnavailableError)]
              /\ microtasks' = AfterEmbedSettled(c, Tail(microtasks))
         ELSE /\ emb' = [emb EXCEPT ![c].pc = "inferring",
                                    ![c].inferCalls = @ + 1,
                                    ![c].inference = "pending"]
              /\ microtasks' = Tail(microtasks)
  /\ UNCHANGED <<textEmbeddingModel, isModelLoading, loads, ana>>
  /\ UNCHANGED applied

\* The embedding call after its model call resolved with `vector`:
\* Array.from(result.data) is returned.
AfterInferenceReturned(e, vector) ==
  [e EXCEPT !.pc = "settled", !.inference = "returned", !.outcome = Fulfilled(vector)]

\* A faulty variant of AfterInferenceThrew: the model is called again.
AfterInferenceThrew_Retry(e) == [e EXCEPT !.inferCalls = @ + 1]

\* The embedding call after its model call rejected: the catch block logs
\* the error and throws a new Error; the model is not called again.
AfterInferenceThrew(e) ==
  [e EXCEPT !.pc = "settled", !.inference = "threw", !.outcome = Rejected(ComputeError)]

\* The model call resolves.
InferenceReturns(c, vector) ==
  /\ microtasks = <<>>
  /\ emb[c].pc = "inferring"
  /\ emb' = [emb EXCEPT ![c] = AfterInferenceReturned(@, vector)]
  /\ microtasks' = AfterEmbedSettled(c, microtasks)
  /\ UNCHANGED <<textEmbeddingModel, isModelLoading, loads, ana>>
  /\ UNCHANGED applied

\* The model call rejects.
InferenceThrows(c) ==
  /\ microtasks = <<>>
  /\ emb[c].pc = "inferring"
  /\ emb' = [emb EXCEPT ![c] = AfterInferenceThrew(@)]
  /\ microtasks' = IF emb'[c].pc = "settled"
                     THEN AfterEmbedSettled(c, microtasks)
                     ELSE microtasks
  /\ UNCHANGED <<textEmbeddingModel, isModelLoading, loads, ana>>
  /\ UNCHANGED applied

(***************************************************************************)
(* analyzeResumeMatch                                                      *)
(***************************************************************************)
\* preprocessText of every input text, computed once.
PreprocessedOf == [t \in Texts |-> preprocessText(t)]

\* onProgress?.(p) for each p of `values` in turn, with a callback that
\* throws when handed `throwsAt`: the values the callback was handed.
Reported(values, throwsAt) ==
  IF \E i \in DOMAIN values : values[i] = throwsAt
    THEN SubSeq(values, 1, CHOOSE i \in DOMAIN values : values[i] = throwsAt)
    ELSE values

CallbackThrows(values, throwsAt) == \E i \in DOMAIN values : values[i] = throwsAt

\* The catch block of analyzeResumeMatch: the caught error is logged and a
\* new Error is thrown.
AnalysisFailure(caught) == AnalysisError

\* The analysis record after its try block threw `caught` at step `failedAt`.
FailAnalysis(a, failedAt, caught, reported) ==
  [a EXCEPT !.pc = "settled", !.failedAt = failedAt, !.firstFailure = caught,
            !.progress = a.progress \o reported,
            !.outcome = Rejected(AnalysisFailure(caught))]

\* The call, up to the first await: skills are extracted and matched and
\* the resume embedding is requested.
AnalyzeCall(c, resumeText, jobText, throwsAt) ==
  /\ c \in Analysts
  /\ Idle(c)
  /\ LET a == [NoAnalysis EXCEPT !.resumeText = resumeText, !.jobText = jobText,
                                 !.cbThrowsAt = throwsAt]
         steps == SubSeq(ProgressValues, 1, 3)
         resumeSkills == SkillsOf[resumeText]
         jobSkills == SkillsOf[jobText]
     IN  IF CallbackThrows(steps, throwsAt)
           THEN /\ ana' = [ana EXCEPT ![c] =
                             FailAnalysis(a, "callback", CallbackError,
                                          Reported(steps, throwsAt))]
                /\ emb' = [emb EXCEPT ![c] = NoEmbedCall]
                /\ UNCHANGED <<textEmbeddingModel, isModelLoading, loads, microtasks>>
           ELSE /\ ana' = [ana EXCEPT ![c] =
                             [a EXCEPT !.pc = "resumeEmbedding",
                                       !.progress = steps,
                                       !.embedCalls = 1,
                                       !.loadsStarted = IF SkipLoad THEN 0 ELSE 1,
                                       !.locals =
                                         [resumeSkills |-> resumeSkills,
                                          jobSkills |-> jobSkills,
                                          matchedSkills |->
                                            MatchedSkills(resumeSkills, jobSkills),
                                          missingSkills |->
                                            MissingSkills(resumeSkills, jobSkills)]]]
                /\ generateEmbeddings(c, PreprocessedOf[resumeText], microtasks)
  /\ UNCHANGED applied

\* A faulty variant of Awaited: a rejected embedding is swallowed and replaced by [].
Awaited_Swallowed(outcome) ==
  IF outcome.state = "rejected" THEN Fulfilled(<<>>) ELSE outcome

\* What `await promise` yields inside the try block: the promise's outcome,
\* a rejection being thrown to the catch block.
Awaited(outcome) == outcome

\* The analysis resumes after `await generateEmbeddings(resume)`: a rejection
\* goes to the catch block, otherwise the job embedding is requested.
AnalyzeAfterResumeEmbedding(c) ==
  /\ microtasks # <<>>
  /\ Head(microtasks) = c
  /\ c \in Analysts
  /\ ana[c].pc = "resumeEmbedding"
  /\ emb[c].pc = "settled"
  /\ IF Awaited(emb[c].outcome).state = "rejected"
       THEN /\ ana' = [ana EXCEPT ![c] =
                         FailAnalysis(@, "resumeEmbedding", emb[c].outcome.error, <<>>)]
            /\ microtasks' = Tail(microtasks)
            /\ UNCHANGED <<textEmbeddingModel, isModelLoading, loads, emb>>
       ELSE /\ ana' = [ana EXCEPT ![c].pc = "jobEmbedding",
                                  ![c].embedCalls = @ + 1,
                                  ![c].loadsStarted = @ + (IF SkipLoad THEN 0 ELSE 1),
                                  ![c].locals =
                                    [resumeEmbedding |-> Awaited(emb[c].outcome).value] @@ @]
            /\ generateEmbeddings(c, PreprocessedOf[ana[c].jobText], Tail(microtasks))
  /\ UNCHANGED applied

\* A faulty variant of AnalysisResult: the missing skills are not capped.
AnalysisResult_Uncapped(l) ==
  [overallScore |-> l.overallScore,
   sectionScores |-> [skills |-> MathRound(l.skillsScore),
                      experience |-> MathRound(l.experienceScore),
                      education |-> MathRound(l.educationScore),
                      keywords |-> MathRound(l.keywordsScore)],
   matchedSkills |-> l.matchedSkills,
   missingSkills |-> l.missingSkills,
   recommendations |-> l.recommendations]

\* The AnalysisResult built from the locals of a completed analysis.
AnalysisResult(l) ==
  [overallScore |-> l.overallScore,
   sectionScores |-> [skills |-> MathRound(l.skillsScore),
                      experience |-> MathRound(l.experienceScore),
                      education |-> MathRound(l.educationScore),
                      keywords |-> MathRound(l.keywordsScore)],
   matchedSkills |-> l.matchedSkills,
   missingSkills |-> Slice(l.missingSkills, 0, 10),
   recommendations |-> l.recommendations]

\* The locals after the scoring and recommendation steps.
Scored(l, semanticSimilarity) ==
  LET skillsScore == SkillsScore(l.matchedSkills, l.jobSkills)
      experienceScore == ExperienceScore(semanticSimilarity)
      educationScore == EducationScore(semanticSimilarity)
      keywordsScore == skillsScore
      overallScore ==
        OverallScore(skillsScore, experienceScore, educationScore, keywordsScore)
  IN  [semanticSimilarity |-> semanticSimilarity,
       skillsScore |-> skillsScore,
       experienceScore |-> experienceScore,
       educationScore |-> educationScore,
       keywordsScore |-> keywordsScore,
       overallScore |-> overallScore,
       recommendations |->
         Recommendations(l.missingSkills, skillsScore, semanticSimilarity, overallScore)]
      @@ l

\* The analysis resumes after `await generateEmbeddings(job)` and runs to
\* its end: similarity, scores, recommendations, the result.
AnalyzeAfterJobEmbedding(c) ==
  /\ microtasks # <<>>
  /\ Head(microtasks) = c
  /\ c \in Analysts
  /\ ana[c].pc = "jobEmbedding"
  /\ emb[c].pc = "settled"
  /\ LET a == ana[c]
         throwsAt == a.cbThrowsAt
         jobEmbedding == Awaited(emb[c].outcome)
         similarity ==
           calculateCosineSimilarity(a.locals.resumeEmbedding, jobEmbedding.value)
         rest == SubSeq(ProgressValues, 5, 7)
         l == Scored([jobEmbedding |-> jobEmbedding.value] @@ a.locals,
                     similarity.value)
     IN  ana' = [ana EXCEPT ![c] =
           IF jobEmbedding.state = "rejected"
             THEN FailAnalysis(a, "jobEmbedding", emb[c].outcome.error, <<>>)
           ELSE IF throwsAt = ProgressValues[4]
             THEN FailAnalysis(a, "callback", CallbackError, <<ProgressValues[4]>>)
           ELSE IF similarity.state = "rejected"
             THEN FailAnalysis(a, "similarity", similarity.error, <<ProgressValues[4]>>)
           ELSE IF CallbackThrows(rest, throwsAt)
             THEN FailAnalysis(a, "callback", CallbackError,
                               <<ProgressValues[4]>> \o Reported(rest, throwsAt))
           ELSE [a EXCEPT !.pc = "settled",
                          !.progress = @ \o <<ProgressValues[4]>> \o rest,
                          !.locals = l,
                          !.outcome = Fulfilled(AnalysisResult(l))]]
  /\ microtasks' = Tail(microtasks)
  /\ UNCHANGED <<textEmbeddingModel, isModelLoading, loads, emb>>
  /\ UNCHANGED applied

(***************************************************************************)
(* The specification                                                       *)
(***************************************************************************)
Next ==
  \/ \E c \in Embedders, t \in EmbedInputs : GenerateEmbeddingsCall(c, t)
  \/ \E c \in Analysts, in \in AnalysisInputs, t \in CallbackThrowsAt :
       AnalyzeCall(c, in[1], in[2], t)
  \/ \E c \in Callers : LoadSucceeds(c)
  \/ \E c \in Callers : LoadFails(c)
  \/ \E c \in Callers : EmbedResume(c)
  \/ \E c \in Callers, v \in Vectors : InferenceReturns(c, v)
  \/ \E c \in Callers : InferenceThrows(c)
  \/ \E c \in Analysts : AnalyzeAfterResumeEmbedding(c)
  \/ \E c \in Analysts : AnalyzeAfterJobEmbedding(c)

Spec == Init /\ [][Next]_vars

(***************************************************************************)
(* The synchronous functions on their own: preprocessText, extractSkills,  *)
(* calculateCosineSimilarity, and the matching, scoring and recommendation *)
(* steps of analyzeResumeMatch for a given semantic similarity.  The       *)
(* initial state draws the arguments and one action per function applies   *)
(* it; the embedding backend is not involved.                              *)
(***************************************************************************)
\* The semantic similarities are the multiples of 1 / SimilaritySteps in [-1, 1].
SimilaritySteps == 10
Similarities == {Rat(k, SimilaritySteps) : k \in -SimilaritySteps..SimilaritySteps}

\* The vectors handed to calculateCosineSimilarity: those of the embedding
\* provider, the empty vector and two zero vectors.
CosineVectors == Vectors \cup {<<>>, <<0>>, <<0, 0>>}

\* The texts handed to preprocessText: the resumes and job descriptions, an
\* identifier with an underscore, a text with punctuation and with runs of
\* blanks, tabs and newlines at both ends and inside, and the empty text.
NormalizeInputs == Texts \cup {"snake_case", "  Node.js\t&\nC++  ", "A1 b2!", ""}

\* The texts handed to extractSkills: the resumes and job descriptions, and
\* every vocabulary entry as a text of its own.
ExtractInputs == Texts \cup Range(commonSkills)

Call(fn, args) == [fn |-> fn, args |-> args, done |-> FALSE, value |-> Undefined]

FnInit ==
  /\ textEmbeddingModel = NULL
  /\ isModelLoading = FALSE
  /\ loads = <<>>
  /\ microtasks = <<>>
  /\ emb = [c \in Callers |-> NoEmbedCall]
  /\ ana = [c \in Analysts |-> NoAnalysis]
  /\ \/ \E text \in NormalizeInputs : applied = Call("preprocessText", <<text>>)
     \/ \E text \in ExtractInputs : applied = Call("extractSkills", <<text>>)
     \/ \E vecA \in CosineVectors, vecB \in CosineVectors :
          applied = Call("calculateCosineSimilarity", <<vecA, vecB>>)
     \/ \E resumeText \in Texts, jobText \in Texts, similarity \in Similarities :
          applied = Call("matchAndScore", <<resumeText, jobText, similarity>>)

Apply(fn, value) ==
  /\ applied.fn = fn
  /\ ~ applied.done
  /\ applied' = [applied EXCEPT !.done = TRUE, !.value = value]
  /\ UNCHANGED <<textEmbeddingModel, isModelLoading, loads, microtasks, emb, ana>>

\* preprocessText(text), and preprocessText of its value.
PreprocessTextApplied ==
  Apply("preprocessText",
        [text |-> preprocessText(applied.args[1]),
         again |-> Str(preprocessChars(preprocessChars(Chars[applied.args[1]])))])

ExtractSkillsApplied == Apply("extractSkills", extractSkills(applied.args[1]))

CosineApplied ==
  Apply("calculateCosineSimilarity",
        calculateCosineSimilarity(applied.args[1], applied.args[2]))

\* analyzeResumeMatch from the skill extraction to the result, without the
\* two embeddings: their similarity is the third argument.
MatchAndScoreApplied ==
  LET resumeSkills == SkillsOf[applied.args[1]]
      jobSkills == SkillsOf[applied.args[2]]
      l == Scored([resumeSkills |-> resumeSkills,
                   jobSkills |-> jobSkills,
                   matchedSkills |-> MatchedSkills(resumeSkills, jobSkills),
                   missingSkills |-> MissingSkills(resumeSkills, jobSkills)],
                  applied.args[3])
  IN  Apply("matchAndScore", [locals |-> l, result |-> AnalysisResult(l)])

FnNext ==
  \/ PreprocessTextApplied
  \/ ExtractSkillsApplied
  \/ CosineApplied
  \/ MatchAndScoreApplied

FnSpec == FnInit /\ [][FnNext]_vars

(***************************************************************************)
(* Claims about the embedding backend                                      *)
(***************************************************************************)
Settled(c) == emb[c].pc = "settled"

\* C1: an embedding call that arrives while a model load is in flight decides
\* on readiness only after that load has finished: it goes on to inference when
\* the load succeeded, and fails with 'Text embedding model not available' only
\* when that load failed.
C1_WaitsForInFlightLoad ==
  \A c \in Callers :
    (emb[c].joinedLoad # 0 /\ emb[c].pc \in {"inferring", "settled"}) =>
      /\ loads[emb[c].joinedLoad] # "pending"
      /\ emb[c].outcome = Rejected(UnavailableError) =>
           loads[emb[c].joinedLoad] = "failed"

\* C2: the model load is started once: never two loads in flight, and no call
\* starts a load while the backend is Loading or Ready, so the loads started
\* are the failed ones plus the one that is in flight or has succeeded.
C2_SingleLoad ==
  /\ LoadsInFlight <= 1
  /\ Cardinality({i \in DOMAIN loads : loads[i] = "pending"}) = LoadsInFlight
  /\ Len(loads) = LoadFailures + (IF BackendState = "Uninitialized" THEN 0 ELSE 1)

\* C2 witness: two calls in flight at once, one awaiting the load it started,
\* the other having arrived during that load.
C2_Witness ==
  \E c, d \in Callers :
    /\ c # d
    /\ emb[c].pc = "loading"
    /\ emb[d].pc = "init"
    /\ emb[d].joinedLoad = emb[c].startedLoad

\* C3: the backend state changes only by Uninitialized -> Loading,
\* Loading -> Ready and Loading -> Uninitialized; once Ready it stays Ready and
\* no load is started; the model is never set while the loading flag is up.
C3_Transitions ==
  /\ [](~(textEmbeddingModel # NULL /\ isModelLoading))
  /\ [][/\ BackendState' # BackendState =>
             <<BackendState, BackendState'>> \in
               {<<"Uninitialized", "Loading">>, <<"Loading", "Ready">>,
                <<"Loading", "Uninitialized">>}
        /\ BackendState = "Ready" =>
             /\ textEmbeddingModel' = textEmbeddingModel
             /\ isModelLoading' = isModelLoading
             /\ loads' = loads]_vars

\* C3 witness: the backend is Ready after a failed and a successful load, and a
\* later call is running inference on it.
C3_Witness ==
  /\ BackendState = "Ready"
  /\ \E i \in DOMAIN loads : loads[i] = "failed"
  /\ \E c \in Callers :
       /\ emb[c].pc = "inferring"
       /\ emb[c].startedLoad = 0
       /\ emb[c].joinedLoad = 0

\* A call by c is issued in this step.
Issued(c) == emb[c].pc \in {"none", "settled"} /\ emb'[c].pc \in {"init", "loading"}

\* C4: a failed load is not raised by initializeModels; the call that started
\* it fails with 'Text embedding model not available' without calling the
\* model; the failure leaves the backend Uninitialized; and a call issued while
\* the backend is Uninitialized starts a fresh load.
C4_LoadFailure ==
  /\ [](\A c \in Callers :
          /\ emb[c].init # "threw"
          /\ (emb[c].startedLoad # 0 /\ loads[emb[c].startedLoad] = "failed") =>
               /\ emb[c].pc \in {"init", "settled"}
               /\ emb[c].inferCalls = 0
               /\ Settled(c) => emb[c].outcome = Rejected(UnavailableError))
  /\ [][/\ Len(loads') = Len(loads) /\ loads' # loads /\ textEmbeddingModel' = NULL =>
             BackendState' = "Uninitialized"
        /\ \A c \in Callers :
             (Issued(c) /\ BackendState = "Uninitialized") =>
               /\ emb'[c].pc = "loading"
               /\ BackendState' = "Loading"
               /\ loads' = Append(loads, "pending")]_vars

\* C4 witness: a call whose load failed was rejected, and a later load succeeded.
C4_Witness ==
  \E c \in Callers :
    /\ emb[c].startedLoad # 0
    /\ loads[emb[c].startedLoad] = "failed"
    /\ emb[c].outcome = Rejected(UnavailableError)
    /\ \E j \in DOMAIN loads : j > emb[c].startedLoad /\ loads[j] = "ok"
    /\ BackendState = "Ready"

\* C5: when the model call throws, the embedding call fails with 'Failed to
\* generate text embeddings', the model was called exactly once for that call,
\* and the backend is left as it was: Ready, no load started.
C5_InferenceFailure ==
  /\ [](\A c \in Callers :
          /\ emb[c].inferCalls <= 1
          /\ emb[c].pc = "inferring" => emb[c].inferCalls = 1 /\ BackendState = "Ready"
          /\ emb[c].inference = "threw" =>
               /\ Settled(c)
               /\ emb[c].outcome = Rejected(ComputeError)
               /\ emb[c].inferCalls = 1
               /\ BackendState = "Ready")
  /\ [][\A c \in Callers :
          (emb[c].pc = "inferring" /\ emb'[c] # emb[c]) =>
            /\ emb'[c].inference \in {"returned", "threw"}
            /\ emb'[c].pc = "settled"
            /\ textEmbeddingModel' = textEmbeddingModel
            /\ isModelLoading' = isModelLoading
            /\ loads' = loads]_vars

\* C5 witness: a call whose inference threw, settled with the compute error.
C5_Witness ==
  \E c \in Callers :
    /\ emb[c].inference = "threw"
    /\ emb[c].outcome = Rejected(ComputeError)
    /\ BackendState = "Ready"

(***************************************************************************)
(* Claims about analyzeResumeMatch                                         *)
(***************************************************************************)
\* C6: analyzeResumeMatch is all-or-nothing and stops at its first failure: a
\* failed embedding or similarity step rejects the call with 'Analysis failed',
\* reports no progress past the failing step and runs no later step (the job
\* embedding is requested only after the resume embedding succeeded, so one
\* call starts at most one model load); a result comes only from a run in
\* which every step succeeded.
C6_ShortCircuit ==
  \A c \in Analysts :
    LET a == ana[c]
        e == emb[c]
        resumeDone == "resumeEmbedding" \in DOMAIN a.locals
    IN  /\ a.loadsStarted <= 1
        /\ a.outcome.state = "rejected" => a.outcome = Rejected(AnalysisError)
        /\ a.pc = "jobEmbedding" => resumeDone /\ a.embedCalls = 2
        /\ (a.pc = "settled" /\ e.outcome.state = "rejected") =>
             /\ a.outcome.state = "rejected"
             /\ a.progress = <<10, 30, 50>>
             /\ a.embedCalls = IF resumeDone THEN 2 ELSE 1
        /\ (/\ a.pc = "settled"
            /\ e.outcome.state = "fulfilled"
            /\ resumeDone
            /\ Len(a.locals.resumeEmbedding) # Len(e.outcome.value)) =>
             /\ a.outcome.state = "rejected"
             /\ a.progress = <<10, 30, 50, 70>>
        /\ a.outcome.state = "fulfilled" =>
             /\ a.pc = "settled"
             /\ a.embedCalls = 2
             /\ e.outcome.state = "fulfilled"
             /\ resumeDone
             /\ Len(a.locals.resumeEmbedding) = Len(e.outcome.value)

\* C6 witness: an analysis whose resume embedding started a load that failed;
\* it was rejected after a single embedding call.
C6_Witness ==
  \E c \in Analysts :
    /\ ana[c].pc = "settled"
    /\ ana[c].failedAt = "resumeEmbedding"
    /\ ana[c].loadsStarted = 1
    /\ ana[c].embedCalls = 1
    /\ emb[c].outcome = Rejected(UnavailableError)
    /\ ana[c].outcome = Rejected(AnalysisError)

\* C7: the error analyzeResumeMatch rejects with carries the first underlying
\* failure as its cause.
C7_CausePreserved ==
  \A c \in Analysts :
    ana[c].outcome.state = "rejected" =>
      /\ "cause" \in DOMAIN ana[c].outcome.error
      /\ ana[c].outcome.error.cause = ana[c].firstFailure

\* C8: the progress values reported by one analysis are a prefix of
\* 10, 30, 50, 70, 80, 90, 100 (so strictly increasing and within 0..100), all
\* of them when the call succeeds; and an analysis in flight is suspended on
\* one of its embedding calls, never on the callback.
C8_Progress ==
  \A c \in Analysts :
    LET p == ana[c].progress
    IN  /\ Len(p) <= 7
        /\ p = SubSeq(<<10, 30, 50, 70, 80, 90, 100>>, 1, Len(p))
        /\ \A i \in DOMAIN p : p[i] \in 0..100
        /\ \A i, j \in DOMAIN p : i < j => p[i] < p[j]
        /\ ana[c].outcome.state = "fulfilled" => p = <<10, 30, 50, 70, 80, 90, 100>>
        /\ ana[c].pc \notin {"none", "settled"} =>
             /\ ana[c].pc \in {"resumeEmbedding", "jobEmbedding"}
             /\ emb[c].pc # "none"
             /\ p = <<10, 30, 50>>

\* C8 witness: a successful analysis, with all seven values reported.
C8_Witness ==
  \E c \in Analysts :
    /\ ana[c].outcome.state = "fulfilled"
    /\ Len(ana[c].progress) = 7

\* C9: scenario A yields resume skills {python, react}, job skills
\* {python, react, aws}, matched {python, react}, missing {aws}, a skills score
\* of 100 * 2/3 and a recommendation naming aws.
C9_ScenarioA ==
  \A c \in Analysts :
    (/\ ana[c].resumeText = "Experienced Python and React developer"
     /\ ana[c].jobText = "Looking for Python, React, and AWS experience"
     /\ ana[c].outcome.state = "fulfilled") =>
      /\ Range(ana[c].locals.resumeSkills) = {"python", "react"}
      /\ Range(ana[c].locals.jobSkills) = {"python", "react", "aws"}
      /\ Range(ana[c].outcome.value.matchedSkills) = {"python", "react"}
      /\ Range(ana[c].outcome.value.missingSkills) = {"aws"}
      /\ ana[c].locals.skillsScore = [n |-> 200, d |-> 3]
      /\ "Add these missing skills to your resume: aws"
           \in Range(ana[c].outcome.value.recommendations)

\* C10: the four section scores and the overall score of every result lie in
\* 0..100.
C10_ScoreBounds ==
  \A c \in Analysts :
    ana[c].outcome.state = "fulfilled" =>
      LET r == ana[c].outcome.value
      IN  /\ r.overallScore \in 0..100
          /\ r.sectionScores.skills \in 0..100
          /\ r.sectionScores.experience \in 0..100
          /\ r.sectionScores.education \in 0..100
          /\ r.sectionScores.keywords \in 0..100

(***************************************************************************)
(* Claims about matching, scoring and the synchronous functions            *)
(***************************************************************************)
\* The value of the function `fn`, once applied.
Returned(fn) == applied.fn = fn /\ applied.done

\* The place of a skill in the vocabulary.
VocabularyIndex(skill) == CHOOSE i \in DOMAIN commonSkills : commonSkills[i] = skill

\* C11: the missing skills of every result are the first 10, in vocabulary
\* order, of all the job skills the resume lacks: never more than 10, exactly
\* 10 when 15 are missing; the matched skills are not truncated.
C11_MissingSkillsCapped ==
  Returned("matchAndScore") =>
    LET l == applied.value.locals
        result == applied.value.result
        allMissing == Range(l.missingSkills)
        Before(skill) ==
          {other \in allMissing : VocabularyIndex(other) < VocabularyIndex(skill)}
    IN  /\ result.missingSkills =
             SelectSeq(commonSkills,
                       LAMBDA skill : /\ skill \in allMissing
                                      /\ Cardinality(Before(skill)) < 10)
        /\ Len(result.missingSkills) <= 10
        /\ Cardinality(allMissing) = 15 => Len(result.missingSkills) = 10
        /\ result.matchedSkills = l.matchedSkills

\* A job description with 15 skills was matched against a resume with none:
\* 15 skills are missing and the result lists 10.
C11_Witness ==
  /\ Returned("matchAndScore")
  /\ Len(applied.value.locals.missingSkills) = 15
  /\ Len(applied.value.result.missingSkills) = 10

\* C12: the recommendations are, in the fixed order 1 to 4, the messages of
\* exactly those rules whose own condition holds (a skill is missing; the
\* skills score is below 70; the similarity is below 0.6; the overall score is
\* below 60), each at most once and whatever the other rules do; the first
\* message names the first 5 missing skills, in order, and no other.
C12_RecommendationRules ==
  Returned("matchAndScore") =>
    LET l == applied.value.locals
        result == applied.value.result
        named == SubSeq(l.missingSkills, 1,
                        IF Len(l.missingSkills) < 5 THEN Len(l.missingSkills) ELSE 5)
        messages ==
          <<"Add these missing skills to your resume: " \o Join(named, ", "),
            "Consider highlighting more relevant technical skills that match the job requirements.",
            "Try to use more keywords and phrases from the job description in your resume.",
            "Consider restructuring your resume to better align with the job requirements.">>
        holds ==
          <<l.missingSkills # <<>>,
            l.skillsScore.n < 70 * l.skillsScore.d,
            10 * l.semanticSimilarity.n < 6 * l.semanticSimilarity.d,
            result.overallScore < 60>>
        emitted == {i \in 1..4 : holds[i]}
        recommendations == result.recommendations
    IN  /\ Len(recommendations) = Cardinality(emitted)
        /\ \A i \in emitted :
             recommendations[1 + Cardinality({j \in emitted : j < i})] = messages[i]

\* Fifteen skills are missing, the similarity is 0 and all four rules fire:
\* the first message names five skills.
C12_Witness ==
  /\ Returned("matchAndScore")
  /\ Len(applied.value.locals.missingSkills) = 15
  /\ Len(applied.value.result.recommendations) = 4
  /\ applied.value.result.recommendations[1] =
       "Add these missing skills to your resume: java, php, go, r, sql"

\* C13: calculateCosineSimilarity throws 'Vectors must have the same length'
\* for every two vectors of different length, whatever their entries; for two
\* vectors of the same length it returns a number, and that number is 0 when
\* one of them has norm zero, two empty vectors included.
C13_CosineFailures ==
  Returned("calculateCosineSimilarity") =>
    LET vecA == applied.args[1]
        vecB == applied.args[2]
        ZeroNorm(vec) == \A i \in DOMAIN vec : vec[i] = 0
    IN  IF Len(vecA) # Len(vecB)
          THEN applied.value = Rejected(Error("Vectors must have the same length"))
          ELSE /\ applied.value.state = "fulfilled"
               /\ applied.value.value.d > 0
               /\ (ZeroNorm(vecA) \/ ZeroNorm(vecB)) =>
                    applied.value.value = [n |-> 0, d |-> 1]

\* Two zero vectors of different length were compared, and the call threw.
C13_Witness ==
  /\ Returned("calculateCosineSimilarity")
  /\ applied.args = << <<0>>, <<0, 0>> >>
  /\ applied.value.state = "rejected"

\* C14: for every text, preprocessText returns a string made only of lowercase
\* letters, digits and single spaces between them, without a space at either
\* end (every other character of the text has become a space), and applying
\* preprocessText to that string returns it unchanged.
C14_NormalForm ==
  Returned("preprocessText") =>
    LET text == applied.value.text
        char == [i \in 1..Len(text) |-> SubSeq(text, i, i)]
    IN  /\ \A i \in DOMAIN char : char[i] \in Range(LowerCase) \cup Digits \cup {" "}
        /\ \A i \in DOMAIN char : char[i] = " " => (i > 1 /\ i < Len(text) /\ char[i + 1] # " ")
        /\ applied.value.again = text

\* C15: with both skill lists extracted from texts, the matched skills are
\* the skills common to the resume and the job description and the missing
\* skills (before the cap) are the job skills the resume lacks: the two are
\* disjoint, together they are the job skills, no more skills are matched
\* than the job description has, and the skills score is at most 100.
C15_MatchingIsSetAlgebra ==
  Returned("matchAndScore") =>
    LET l == applied.value.locals
        resume == Range(extractSkills(applied.args[1]))
        job == Range(extractSkills(applied.args[2]))
        matched == Range(l.matchedSkills)
        missing == Range(l.missingSkills)
    IN  /\ matched = resume \cap job
        /\ missing = job \ resume
        /\ matched \cap missing = {}
        /\ matched \cup missing = job
        /\ Len(l.matchedSkills) <= Len(l.jobSkills)
        /\ l.skillsScore.n <= 100 * l.skillsScore.d

\* A resume with 'git' and 'java' was matched against a job description with
\* 'github' and 'javascript': both resume skills are matched, the two longer
\* ones are missing.
C15_Witness ==
  /\ Returned("matchAndScore")
  /\ applied.args[1] = "Git and Java"
  /\ applied.args[2] = "GitHub, JavaScript"
  /\ Range(applied.value.locals.matchedSkills) = {"git", "java"}
  /\ {"github", "javascript"} \subseteq Range(applied.value.locals.missingSkills)

\* C16: every vocabulary entry is detectable: extractSkills of a text that
\* consists of the entry alone returns a list containing the entry.
C16_VocabularyDetectable ==
  (Returned("extractSkills") /\ applied.args[1] \in Range(commonSkills)) =>
    applied.args[1] \in Range(applied.value)

\* C17: the recommendation to restructure the resume never comes without the
\* recommendation to highlight more skills or the one to use more keywords: a
\* skills score of at least 70 and a similarity of at least 0.6 give an
\* overall score of at least 60.
C17_RestructureNeverAlone ==
  Returned("matchAndScore") =>
    LET l == applied.value.locals
        recommendations == Range(applied.value.result.recommendations)
    IN  /\ ("Consider restructuring your resume to better align with the job requirements."
               \in recommendations) =>
             \/ "Consider highlighting more relevant technical skills that match the job requirements."
                  \in recommendations
             \/ "Try to use more keywords and phrases from the job description in your resume."
                  \in recommendations
        /\ (/\ l.skillsScore.n >= 70 * l.skillsScore.d
            /\ 10 * l.semanticSimilarity.n >= 6 * l.semanticSimilarity.d) =>
             applied.value.result.overallScore >= 60

\* A resume matched against itself with similarity 0: every skill matches, the
\* overall score is 50, and the restructuring advice comes with the keyword
\* advice alone.
C17_Witness ==
  /\ Returned("matchAndScore")
  /\ applied.value.locals.skillsScore = Num(100)
  /\ applied.value.result.overallScore = 50
  /\ applied.value.result.recommendations =
       <<"Try to use more keywords and phrases from the job description in your resume.",
         "Consider restructuring your resume to better align with the job requirements.">>
=============================================================================
